---- MODULE Spec2Model ----
(***************************************************************************)
(* Model of PyEMMA's setup.py: the module-level script, extensions(), the  *)
(* sdist command override of get_cmdclass() and the lazily evaluated       *)
(* extension list.  Strings that the code inspects or rewrites (source     *)
(* paths) are sequences of one-character strings; strings that are only    *)
(* compared for equality (flags, keys, commands) are TLA+ strings.         *)
(***************************************************************************)
EXTENDS Naturals, Integers, Sequences, FiniteSets, TLC

(* ------------------------------ bounds --------------------------------- *)
\* longest command line modelled, not counting sys.argv[0]
MaxArgs ==
    2
\* most descriptors in a descriptor set drawn for the pipeline specification
MaxExts ==
    2
\* most segments concatenated into a source path drawn for the pipeline
MaxSegs ==
    2

(* ------------------------------ strings -------------------------------- *)
PYX ==
    <<".", "p", "y", "x">>
DOT_C ==
    <<".", "c">>

EndsWith(s, suf) ==
    /\ Len(s) >= Len(suf)
    /\ SubSeq(s, Len(s) - Len(suf) + 1, Len(s)) = suf

\* Python's str.replace(old, new): every non-overlapping occurrence of old,
\* scanning from the left, is replaced by new.
RECURSIVE StrReplace(_, _, _)
StrReplace(s, old, new) ==
    IF Len(s) < Len(old)
    THEN s
    ELSE IF SubSeq(s, 1, Len(old)) = old
         THEN new \o StrReplace(SubSeq(s, Len(old) + 1, Len(s)), old, new)
         ELSE <<Head(s)>> \o StrReplace(Tail(s), old, new)

RECURSIVE CountOf(_, _)
CountOf(x, seq) ==
    IF seq = <<>>
    THEN 0
    ELSE (IF Head(seq) = x THEN 1 ELSE 0) + CountOf(x, Tail(seq))

(* --------------------------- the descriptors --------------------------- *)
clustering_src ==
    <<"p","y","e","m","m","a","/","c","o","o","r","d","i","n","a","t","e","s","/","c","l","u","s","t","e","r","i","n","g","/","s","r","c","/","c","l","u","s","t","e","r","i","n","g","_","m","o","d","u","l","e",".","c","p","p">>
covar_src ==
    <<"p","y","e","m","m","a","/","_","e","x","t","/","v","a","r","i","a","t","i","o","n","a","l","/","e","s","t","i","m","a","t","o","r","s","/","c","o","v","a","r","_","c","/","c","o","v","a","r","t","o","o","l","s",".","c","p","p">>
eig_qr_src ==
    <<"p","y","e","m","m","a","/","_","e","x","t","/","v","a","r","i","a","t","i","o","n","a","l","/","s","o","l","v","e","r","s","/","e","i","g","_","q","r","/","e","i","g","_","q","r",".","p","y","x">>
orderedset_src ==
    <<"p","y","e","m","m","a","/","_","e","x","t","/","o","r","d","e","r","e","d","s","e","t","/","_","o","r","d","e","r","e","d","s","e","t",".","p","y","x">>

\* setuptools' Extension(name, sources, language, extra_compile_args): the
\* fields extensions() later rewrites; extra_link_args and define_macros
\* default to fresh empty lists.
Extension(name, sources, language, extra_compile_args) ==
    [name |-> name, sources |-> sources, language |-> language,
     extra_compile_args |-> extra_compile_args,
     extra_link_args |-> <<>>, define_macros |-> <<>>]

clustering_module ==
    Extension("pyemma.coordinates.clustering._ext", <<clustering_src>>, "c++",
              <<"-std=c++11", "-O3", "-fvisibility=hidden">>)
covar_module ==
    Extension("pyemma._ext.variational.estimators.covar_c._covartools",
              <<covar_src>>, "None",
              <<"-std=c++11", "-O3", "-fvisibility=hidden">>)
eig_qr_module ==
    Extension("pyemma._ext.variational.solvers.eig_qr.eig_qr",
              <<eig_qr_src>>, "None", <<"-std=c99", "-O3">>)
orderedset ==
    Extension("pyemma._ext.orderedset._orderedset",
              <<orderedset_src>>, "None", <<"-O3">>)

\* exts += [clustering_module, covar_module, eig_qr_module, orderedset]
BaseExts ==
    <<clustering_module, covar_module, eig_qr_module, orderedset>>

(* ------------------- source-form resolution (144-152) ------------------ *)
\* new_src.append(s.replace('.pyx', '.c'))
new_src(sources) ==
    [j \in DOMAIN sources |-> StrReplace(sources[j], PYX, DOT_C)]

\* Cython.Build.cythonize(exts): the translator, an external collaborator.
\* It hands back the descriptors with each '.pyx' source replaced by the
\* file it generated from it; flags and defines are carried over.
cythonize(es) ==
    [i \in DOMAIN es |->
        [es[i] EXCEPT !.sources =
            [j \in DOMAIN @ |->
                IF EndsWith(@[j], PYX)
                THEN SubSeq(@[j], 1, Len(@[j]) - Len(PYX)) \o DOT_C
                ELSE @[j]]]]

resolve(es, use_cython) ==
    IF ~use_cython
    THEN [i \in DOMAIN es |-> [es[i] EXCEPT !.sources = new_src(@)]]
    ELSE cythonize(es)

(* ---------------------- feature injection (154-162) -------------------- *)
omp_compiler_args ==
    <<"-fopenmp">>
omp_libraries_always(gomp) ==
    <<"-lgomp">>
omp_libraries(gomp) ==
    IF gomp THEN <<"-lgomp">> ELSE <<>>
omp_defines ==
    << <<"USE_OPENMP", "None">> >>

append_omp(e, gomp) ==
    [e EXCEPT !.extra_compile_args = @ \o omp_compiler_args,
              !.extra_link_args = @ \o omp_libraries(gomp),
              !.define_macros = @ \o omp_defines]

inject_unconditional(es, openmp, gomp) ==
    [i \in DOMAIN es |-> append_omp(es[i], gomp)]
inject(es, openmp, gomp) ==
    IF openmp
    THEN [i \in DOMAIN es |-> append_omp(es[i], gomp)]
    ELSE es

(* ------------------------- the command line ---------------------------- *)
Tokens ==
    {"--help", "--help-commands", "--version", "clean", "sdist", "build_ext"}

RECURSIVE SeqsUpTo(_, _)
SeqsUpTo(S, n) ==
    IF n = 0
    THEN {<<>>}
    ELSE LET shorter == SeqsUpTo(S, n - 1)
         IN  shorter \cup {Append(s, x) : s \in shorter, x \in S}

Range(seq) ==
    {seq[i] : i \in DOMAIN seq}

\* argv is sys.argv[1:]; len(sys.argv) == 1 is argv = <<>>.
not_installing_first_only(argv) ==
    \/ Len(argv) = 0
    \/ /\ Len(argv) >= 1
       /\ argv[1] \in {"--help", "--help-commands", "--version"}
not_installing(argv) ==
    \/ Len(argv) = 0
    \/ /\ Len(argv) >= 1
       /\ \/ "--help" \in Range(argv)
          \/ argv[1] \in {"--help-commands", "--version", "clean"}

(* ------------------------------- state --------------------------------- *)
VARIABLES
    argv,            \* sys.argv[1:]
    env,             \* what the run finds installed and on disk
    pc,              \* position of the script / of setup()'s command loop
    cmd,             \* the command setup() is running
    cmds,            \* commands setup() has still to run
    metadata,        \* the metadata dict: its keys and 'setup_requires'
    lazy_list,       \* lazy_cythonize: whether evaluated, and its _list
    sdist_state,     \* the sdist override: NotRun, Running, Done, Failed
    base_runs,       \* number of sdist_class.run(self) calls
    sdist_imports,   \* number of times line 181 imported Cython.Build
    cythonize_calls, \* number of cythonize() calls made by sdist.run
    sdist_exts,      \* what cythonize(extensions()) of sdist.run produced
    ext_pc,          \* position inside extensions()
    caller,          \* who called extensions()
    USE_CYTHON,      \* locals of extensions()
    openmp_enabled,
    needs_gomp,
    exts,
    exts0,           \* exts as assembled at line 142, before line 144
    ext_calls,       \* number of extensions() calls, per caller
    cython_probes,   \* number of times line 83 imported Cython.Build
    detect_calls,    \* number of detect_openmp() calls
    built_with,      \* toolchain states of the descriptor sets returned
    exc,             \* exception in flight or that ended the process
    exc_origin,      \* the import or check that raised it
    caught,          \* origins of the exceptions an except clause caught
    warnings,        \* warnings.warn messages emitted
    exit_code        \* -1 while running, then the process exit status

envv ==
    <<argv, env>>
modv ==
    <<pc, cmd, cmds, metadata>>
sdv ==
    <<sdist_state, base_runs, sdist_imports, cythonize_calls, sdist_exts>>
locv ==
    <<USE_CYTHON, openmp_enabled, needs_gomp, exts, exts0>>
cntv ==
    <<ext_calls, cython_probes, detect_calls, built_with>>
excv ==
    <<exc, exc_origin, caught, exit_code>>
vars ==
    <<argv, env, pc, cmd, cmds, metadata, lazy_list, sdist_state, base_runs,
      sdist_imports, cythonize_calls, sdist_exts, ext_pc, caller, USE_CYTHON,
      openmp_enabled, needs_gomp, exts, exts0, ext_calls, cython_probes,
      detect_calls, built_with, exc, exc_origin, caught, warnings, exit_code>>

\* The environment of one run: whether '.git' and the bundled
\* pybind11/include exist, whether Cython.Build, setup_util.detect_openmp,
\* mdtraj and numpy can be imported, and what detect_openmp() reports.
Envs ==
    [git : BOOLEAN, cython : BOOLEAN, openmp : BOOLEAN, gomp : BOOLEAN,
     detect_openmp : BOOLEAN, mdtraj : BOOLEAN, numpy : BOOLEAN,
     pybind : BOOLEAN]

\* State shared by both specifications before anything has run.
Idle ==
    /\ cmd = "none"
    /\ cmds = <<>>
    /\ metadata = [keys |-> {}, setup_requires |-> <<>>]
    /\ lazy_list = [evaluated |-> FALSE, list |-> <<>>]
    /\ sdist_state = "NotRun"
    /\ base_runs = 0
    /\ sdist_imports = 0
    /\ cythonize_calls = 0
    /\ sdist_exts = <<>>
    /\ caller = "none"
    /\ ext_calls = [sdist |-> 0, lazy |-> 0, module |-> 0]
    /\ cython_probes = 0
    /\ detect_calls = 0
    /\ built_with = {}
    /\ exc = "none"
    /\ exc_origin = "none"
    /\ caught = {}
    /\ warnings = {}
    /\ exit_code = -1

Init ==
    /\ argv \in SeqsUpTo(Tokens, MaxArgs)
    /\ env \in Envs
    /\ pc = "metadata"
    /\ ext_pc = "idle"
    /\ USE_CYTHON = FALSE
    /\ openmp_enabled = FALSE
    /\ needs_gomp = FALSE
    /\ exts = <<>>
    /\ exts0 = <<>>
    /\ Idle

(* ----------------------- the module-level script ----------------------- *)
\* metadata = dict(...), including cmdclass=get_cmdclass(), and
\* metadata['requires']
ModuleMetadata ==
    /\ pc = "metadata"
    /\ metadata' = [metadata EXCEPT !.keys =
            {"name", "maintainer", "maintainer_email", "author",
             "author_email", "url", "license", "description",
             "long_description", "version", "platforms", "classifiers",
             "keywords", "packages", "package_data", "cmdclass",
             "tests_require", "install_requires", "zip_safe", "requires"}]
    /\ pc' = "branch"
    /\ UNCHANGED <<envv, cmd, cmds, lazy_list, sdv, ext_pc, caller, locv,
                   cntv, excv, warnings>>

\* Shape of the branch with an eager ext_modules=extensions() in place of
\* the lazy wrapper.
ModuleBranchEager ==
    /\ pc = "branch"
    /\ pc' = "setup"
    /\ IF not_installing(argv)
       THEN UNCHANGED <<metadata, ext_pc, caller, ext_calls>>
       ELSE /\ metadata' = [metadata EXCEPT
                   !.keys = @ \cup {"setup_requires", "ext_modules"}]
            /\ ext_pc' = "probe"
            /\ caller' = "module"
            /\ ext_calls' = [ext_calls EXCEPT !.module = @ + 1]
    /\ UNCHANGED <<envv, cmd, cmds, lazy_list, sdv, locv, cython_probes,
                   detect_calls, built_with, excv, warnings>>

\* "not installing?" ... metadata['ext_modules'] = lazy_cythonize(...)
ModuleBranch ==
    /\ pc = "branch"
    /\ IF not_installing(argv)
       THEN /\ pc' = "setup"
            /\ UNCHANGED <<metadata, warnings, exc, exc_origin, exit_code>>
       ELSE \E submodules_ok \in BOOLEAN :
            LET requires == <<"numpy>=1.7.0", "scipy", "mdtraj>=1.7.0">>
                                \o (IF env.git THEN <<"cython>=0.22">> ELSE <<>>)
            IN  /\ warnings' = IF env.git
                               THEN warnings \cup {"using git, require cython"}
                               ELSE warnings
                /\ IF env.git /\ ~submodules_ok
                   THEN \* subprocess.check_call raises CalledProcessError
                        /\ metadata' = [metadata EXCEPT
                               !.keys = @ \cup {"setup_requires"},
                               !.setup_requires = requires]
                        /\ exc' = "CalledProcessError"
                        /\ exc_origin' = "git submodule update"
                        /\ exit_code' = 1
                        /\ pc' = "exit"
                   ELSE /\ metadata' = [metadata EXCEPT
                               !.keys = @ \cup {"setup_requires", "ext_modules"},
                               !.setup_requires = requires]
                        /\ pc' = "setup"
                        /\ UNCHANGED <<exc, exc_origin, exit_code>>
    /\ UNCHANGED <<envv, cmd, cmds, lazy_list, sdv, ext_pc, caller, locv,
                   cntv, caught>>

(* --------------------- setup(): the command loop ----------------------- *)
DisplayOptions ==
    {"--help", "--help-commands", "--version"}
Commands ==
    {"clean", "sdist", "build_ext"}

\* The commands of the command line, each once, in order of first mention.
RECURSIVE CommandsOf(_, _)
CommandsOf(a, seen) ==
    IF a = <<>>
    THEN <<>>
    ELSE IF Head(a) \in Commands \ seen
         THEN <<Head(a)>> \o CommandsOf(Tail(a), seen \cup {Head(a)})
         ELSE CommandsOf(Tail(a), seen)

\* setup() parses the command line: a display option prints and runs no
\* command.
Setup ==
    /\ pc = "setup"
    /\ cmds' = IF Range(argv) \cap DisplayOptions # {}
               THEN <<>>
               ELSE CommandsOf(argv, {})
    /\ pc' = "dispatch"
    /\ UNCHANGED <<envv, cmd, metadata, lazy_list, sdv, ext_pc, caller, locv,
                   cntv, excv, warnings>>

Finish ==
    /\ pc = "dispatch"
    /\ cmds = <<>>
    /\ pc' = "exit"
    /\ cmd' = "none"
    /\ exit_code' = 0
    /\ UNCHANGED <<envv, cmds, metadata, lazy_list, sdv, ext_pc, caller, locv,
                   cntv, exc, exc_origin, caught, warnings>>

RunClean ==
    /\ pc = "dispatch"
    /\ cmds # <<>>
    /\ Head(cmds) = "clean"
    /\ cmd' = "clean"
    /\ cmds' = Tail(cmds)
    /\ UNCHANGED <<envv, pc, metadata, lazy_list, sdv, ext_pc, caller, locv,
                   cntv, excv, warnings>>

\* build_ext asks the distribution for its extension list, if it has one.
RunBuildExt ==
    /\ pc = "dispatch"
    /\ cmds # <<>>
    /\ Head(cmds) = "build_ext"
    /\ cmd' = "build_ext"
    /\ cmds' = Tail(cmds)
    /\ pc' = IF "ext_modules" \in metadata.keys THEN "lazy_request" ELSE "dispatch"
    /\ UNCHANGED <<envv, metadata, lazy_list, sdv, ext_pc, caller, locv,
                   cntv, excv, warnings>>

(* --------------------- lazy_cythonize(callback=extensions) ------------- *)
\* The wrapper evaluates the callback when the list is first asked for and
\* keeps the result.
LazyRequest ==
    /\ pc = "lazy_request"
    /\ IF lazy_list.evaluated
       THEN /\ pc' = IF cmd = "sdist" THEN "sdist_done" ELSE "dispatch"
            /\ UNCHANGED <<ext_pc, caller, ext_calls>>
       ELSE /\ pc' = "lazy_wait"
            /\ ext_pc' = "probe"
            /\ caller' = "lazy"
            /\ ext_calls' = [ext_calls EXCEPT !.lazy = @ + 1]
    /\ UNCHANGED <<envv, cmd, cmds, metadata, lazy_list, sdv, locv,
                   cython_probes, detect_calls, built_with, excv, warnings>>

LazyStore ==
    /\ pc = "lazy_wait"
    /\ ext_pc = "returned"
    /\ lazy_list' = [evaluated |-> TRUE, list |-> exts]
    /\ ext_pc' = "idle"
    /\ caller' = "none"
    /\ pc' = IF cmd = "sdist" THEN "sdist_done" ELSE "dispatch"
    /\ UNCHANGED <<envv, cmd, cmds, metadata, sdv, locv, cntv, excv, warnings>>

\* An exception of the callback leaves the wrapper and the command.
LazyRaise ==
    /\ pc = "lazy_wait"
    /\ ext_pc = "raised"
    /\ ext_pc' = "idle"
    /\ caller' = "none"
    /\ sdist_state' = IF cmd = "sdist" THEN "Failed" ELSE sdist_state
    /\ exit_code' = 1
    /\ pc' = "exit"
    /\ UNCHANGED <<envv, cmd, cmds, metadata, lazy_list, base_runs,
                   sdist_imports, cythonize_calls, sdist_exts, locv, cntv,
                   exc, exc_origin, caught, warnings>>

(* ------------------- get_cmdclass(): the sdist override ---------------- *)
RunSdist ==
    /\ pc = "dispatch"
    /\ cmds # <<>>
    /\ Head(cmds) = "sdist"
    /\ cmd' = "sdist"
    /\ cmds' = Tail(cmds)
    /\ sdist_state' = "Running"
    /\ pc' = "sdist_git"
    /\ UNCHANGED <<envv, metadata, lazy_list, base_runs, sdist_imports,
                   cythonize_calls, sdist_exts, ext_pc, caller, locv, cntv,
                   excv, warnings>>

\* Shape of the check with the early return left out.
SdistCheckGitNoReturn ==
    /\ pc = "sdist_git"
    /\ pc' = "sdist_try"
    /\ UNCHANGED <<envv, cmd, cmds, metadata, lazy_list, sdv, ext_pc, caller,
                   locv, cntv, excv, warnings>>

\* if not os.path.exists('.git'): print(...); return
SdistCheckGit ==
    /\ pc = "sdist_git"
    /\ IF ~env.git
       THEN /\ sdist_state' = "Done"
            /\ pc' = "dispatch"
       ELSE /\ pc' = "sdist_try"
            /\ UNCHANGED sdist_state
    /\ UNCHANGED <<envv, cmd, cmds, metadata, lazy_list, base_runs,
                   sdist_imports, cythonize_calls, sdist_exts, ext_pc, caller,
                   locv, cntv, excv, warnings>>

\* Shape of the import with no except clause around it.
SdistImportCythonUncaught ==
    /\ pc = "sdist_try"
    /\ sdist_imports' = sdist_imports + 1
    /\ IF env.cython
       THEN /\ pc' = "sdist_wait"
            /\ ext_pc' = "probe"
            /\ caller' = "sdist"
            /\ ext_calls' = [ext_calls EXCEPT !.sdist = @ + 1]
            /\ UNCHANGED <<sdist_state, excv>>
       ELSE /\ exc' = "ImportError"
            /\ exc_origin' = "Cython"
            /\ sdist_state' = "Failed"
            /\ exit_code' = 1
            /\ pc' = "exit"
            /\ UNCHANGED <<ext_pc, caller, ext_calls, caught>>
    /\ UNCHANGED <<envv, cmd, cmds, metadata, lazy_list, base_runs,
                   cythonize_calls, sdist_exts, locv, cython_probes,
                   detect_calls, built_with, warnings>>

\* try: from Cython.Build import cythonize ... cythonize(extensions()): the
\* import, and on success the call of extensions(); a failed import goes to
\* the except clause.
SdistImportCython ==
    /\ pc = "sdist_try"
    /\ sdist_imports' = sdist_imports + 1
    /\ IF env.cython
       THEN /\ pc' = "sdist_wait"
            /\ ext_pc' = "probe"
            /\ caller' = "sdist"
            /\ ext_calls' = [ext_calls EXCEPT !.sdist = @ + 1]
            /\ UNCHANGED <<caught, warnings>>
       ELSE /\ caught' = caught \cup {"Cython"}
            /\ warnings' = warnings \cup {"sdist cythonize failed"}
            /\ pc' = "sdist_base"
            /\ UNCHANGED <<ext_pc, caller, ext_calls>>
    /\ UNCHANGED <<envv, cmd, cmds, metadata, lazy_list, sdist_state,
                   base_runs, cythonize_calls, sdist_exts, locv, cython_probes,
                   detect_calls, built_with, exc, exc_origin, exit_code>>

\* cythonize(extensions()), once extensions() has returned
SdistCythonize ==
    /\ pc = "sdist_wait"
    /\ ext_pc = "returned"
    /\ cythonize_calls' = cythonize_calls + 1
    /\ sdist_exts' = cythonize(exts)
    /\ ext_pc' = "idle"
    /\ caller' = "none"
    /\ pc' = "sdist_base"
    /\ UNCHANGED <<envv, cmd, cmds, metadata, lazy_list, sdist_state,
                   base_runs, sdist_imports, locv, cntv, excv, warnings>>

\* except ImportError: warnings.warn('sdist cythonize failed'), for an
\* exception that extensions() raised; any other exception leaves run().
SdistExcept ==
    /\ pc = "sdist_wait"
    /\ ext_pc = "raised"
    /\ ext_pc' = "idle"
    /\ caller' = "none"
    /\ IF exc = "ImportError"
       THEN /\ caught' = caught \cup {exc_origin}
            /\ warnings' = warnings \cup {"sdist cythonize failed"}
            /\ exc' = "none"
            /\ exc_origin' = "none"
            /\ pc' = "sdist_base"
            /\ UNCHANGED <<sdist_state, exit_code>>
       ELSE /\ sdist_state' = "Failed"
            /\ exit_code' = 1
            /\ pc' = "exit"
            /\ UNCHANGED <<exc, exc_origin, caught, warnings>>
    /\ UNCHANGED <<envv, cmd, cmds, metadata, lazy_list, base_runs,
                   sdist_imports, cythonize_calls, sdist_exts, locv, cntv>>

\* return sdist_class.run(self): the base command, which asks the
\* distribution for its extension list, if it has one
SdistBase ==
    /\ pc = "sdist_base"
    /\ base_runs' = base_runs + 1
    /\ pc' = IF "ext_modules" \in metadata.keys THEN "lazy_request" ELSE "sdist_done"
    /\ UNCHANGED <<envv, cmd, cmds, metadata, lazy_list, sdist_state,
                   sdist_imports, cythonize_calls, sdist_exts, ext_pc, caller,
                   locv, cntv, excv, warnings>>

SdistReturn ==
    /\ pc = "sdist_done"
    /\ sdist_state' = "Done"
    /\ pc' = "dispatch"
    /\ UNCHANGED <<envv, cmd, cmds, metadata, lazy_list, base_runs,
                   sdist_imports, cythonize_calls, sdist_exts, ext_pc, caller,
                   locv, cntv, excv, warnings>>

(* ------------------------------ extensions() --------------------------- *)
Raise(kind, origin) ==
    /\ exc' = kind
    /\ exc_origin' = origin
    /\ ext_pc' = "raised"

\* USE_CYTHON = False; try: from Cython.Build import cythonize ...
ExtProbe ==
    /\ ext_pc = "probe"
    /\ cython_probes' = cython_probes + 1
    /\ USE_CYTHON' = env.cython
    /\ warnings' = IF env.cython
                   THEN warnings
                   ELSE warnings \cup {"Cython not found. Using pre cythonized files."}
    /\ openmp_enabled' = FALSE
    /\ needs_gomp' = FALSE
    /\ exts' = <<>>
    /\ exts0' = <<>>
    /\ ext_pc' = "detect"
    /\ UNCHANGED <<envv, modv, lazy_list, sdv, caller, ext_calls, detect_calls,
                   built_with, excv>>

\* Shape of the probe with detect_openmp() called once per returned value.
ExtDetectTwice ==
    /\ ext_pc = "detect"
    /\ IF ~env.detect_openmp
       THEN /\ Raise("ImportError", "detect_openmp")
            /\ UNCHANGED <<openmp_enabled, needs_gomp, detect_calls>>
       ELSE /\ detect_calls' = detect_calls + 2
            /\ openmp_enabled' = env.openmp
            /\ needs_gomp' = env.gomp
            /\ ext_pc' = "imports"
            /\ UNCHANGED <<exc, exc_origin>>
    /\ UNCHANGED <<envv, modv, lazy_list, sdv, caller, USE_CYTHON, exts, exts0,
                   ext_calls, cython_probes, built_with, caught, warnings,
                   exit_code>>

\* from setup_util import detect_openmp;
\* openmp_enabled, needs_gomp = detect_openmp()
ExtDetect ==
    /\ ext_pc = "detect"
    /\ IF ~env.detect_openmp
       THEN /\ Raise("ImportError", "detect_openmp")
            /\ UNCHANGED <<openmp_enabled, needs_gomp, detect_calls>>
       ELSE /\ detect_calls' = detect_calls + 1
            /\ openmp_enabled' = env.openmp
            /\ needs_gomp' = env.gomp
            /\ ext_pc' = "imports"
            /\ UNCHANGED <<exc, exc_origin>>
    /\ UNCHANGED <<envv, modv, lazy_list, sdv, caller, USE_CYTHON, exts, exts0,
                   ext_calls, cython_probes, built_with, caught, warnings,
                   exit_code>>

\* import mdtraj; from numpy import get_include as _np_inc
ExtImports ==
    /\ ext_pc = "imports"
    /\ IF ~env.mdtraj \/ ~env.numpy
       THEN Raise("ImportError", IF ~env.mdtraj THEN "mdtraj" ELSE "numpy")
       ELSE /\ ext_pc' = "pybind"
            /\ UNCHANGED <<exc, exc_origin>>
    /\ UNCHANGED <<envv, modv, lazy_list, sdv, caller, locv, cntv, caught,
                   warnings, exit_code>>

\* assert os.path.exists(pybind_inc)
ExtPybind ==
    /\ ext_pc = "pybind"
    /\ IF ~env.pybind
       THEN Raise("AssertionError", "pybind11")
       ELSE /\ ext_pc' = "build"
            /\ UNCHANGED <<exc, exc_origin>>
    /\ UNCHANGED <<envv, modv, lazy_list, sdv, caller, locv, cntv, caught,
                   warnings, exit_code>>

\* Shape of the assembly with the descriptors kept from an earlier call.
ExtBuildReused ==
    /\ ext_pc = "build"
    /\ exts' = IF sdist_exts # <<>> THEN sdist_exts ELSE BaseExts
    /\ exts0' = exts'
    /\ ext_pc' = "resolve"
    /\ UNCHANGED <<envv, modv, lazy_list, sdv, caller, USE_CYTHON,
                   openmp_enabled, needs_gomp, cntv, excv, warnings>>

\* exts = []; the four Extension(...); exts += [...]
ExtBuild ==
    /\ ext_pc = "build"
    /\ exts' = BaseExts
    /\ exts0' = BaseExts
    /\ ext_pc' = "resolve"
    /\ UNCHANGED <<envv, modv, lazy_list, sdv, caller, USE_CYTHON,
                   openmp_enabled, needs_gomp, cntv, excv, warnings>>

\* if not USE_CYTHON: ... else: exts = cythonize(exts)
ExtResolve ==
    /\ ext_pc = "resolve"
    /\ exts' = resolve(exts, USE_CYTHON)
    /\ ext_pc' = "inject"
    /\ UNCHANGED <<envv, modv, lazy_list, sdv, caller, USE_CYTHON,
                   openmp_enabled, needs_gomp, exts0, cntv, excv, warnings>>

\* if openmp_enabled: ...
ExtInject ==
    /\ ext_pc = "inject"
    /\ exts' = inject(exts, openmp_enabled, needs_gomp)
    /\ warnings' = IF openmp_enabled
                   THEN warnings \cup {"enabled openmp"}
                   ELSE warnings
    /\ ext_pc' = "return"
    /\ UNCHANGED <<envv, modv, lazy_list, sdv, caller, USE_CYTHON,
                   openmp_enabled, needs_gomp, exts0, cntv, excv>>

\* return exts
ExtReturn ==
    /\ ext_pc = "return"
    /\ built_with' = built_with \cup {<<USE_CYTHON, openmp_enabled, needs_gomp>>}
    /\ ext_pc' = "returned"
    /\ UNCHANGED <<envv, modv, lazy_list, sdv, caller, locv, ext_calls,
                   cython_probes, detect_calls, excv, warnings>>

(* ---------------------------- specifications --------------------------- *)
Next ==
    \/ ModuleMetadata
    \/ ModuleBranch
    \/ Setup
    \/ Finish
    \/ RunClean
    \/ RunBuildExt
    \/ LazyRequest
    \/ LazyStore
    \/ LazyRaise
    \/ RunSdist
    \/ SdistCheckGit
    \/ SdistImportCython
    \/ SdistCythonize
    \/ SdistExcept
    \/ SdistBase
    \/ SdistReturn
    \/ ExtProbe
    \/ ExtDetect
    \/ ExtImports
    \/ ExtPybind
    \/ ExtBuild
    \/ ExtResolve
    \/ ExtInject
    \/ ExtReturn

\* One run of "python setup.py argv" in environment env.
Spec ==
    Init /\ [][Next]_vars

\* Source paths drawn for the pipeline: concatenations of these segments.
Segments ==
    {<<"a">>, PYX}

RECURSIVE PathsUpTo(_)
PathsUpTo(n) ==
    IF n = 1
    THEN Segments
    ELSE LET shorter == PathsUpTo(n - 1)
         IN  shorter \cup {p \o g : p \in shorter, g \in Segments}

DescriptorSets ==
    LET descriptors ==
            {Extension("ext", <<p>>, "None", <<"-O3">>) : p \in PathsUpTo(MaxSegs)}
    IN  SeqsUpTo(descriptors, MaxExts) \ {<<>>}

\* Lines 144-164 of extensions() applied to any descriptor set under any
\* toolchain state.
PipelineInit ==
    /\ argv = <<>>
    /\ env = [git |-> FALSE, cython |-> FALSE, openmp |-> FALSE, gomp |-> FALSE,
              detect_openmp |-> TRUE, mdtraj |-> TRUE, numpy |-> TRUE,
              pybind |-> TRUE]
    /\ pc = "extensions"
    /\ ext_pc = "resolve"
    /\ USE_CYTHON \in BOOLEAN
    /\ openmp_enabled \in BOOLEAN
    /\ needs_gomp \in BOOLEAN
    /\ exts0 \in DescriptorSets
    /\ exts = exts0
    /\ Idle

PipelineNext ==
    \/ ExtResolve
    \/ ExtInject
    \/ ExtReturn

PipelineSpec ==
    PipelineInit /\ [][PipelineNext]_vars

(* ------------------------------ properties ----------------------------- *)
ext_total ==
    ext_calls.sdist + ext_calls.lazy + ext_calls.module

\* The invocations the claims call metadata-only, read off the command line.
MetadataOnlyInvocation ==
    \/ argv = <<>>
    \/ \E i \in DOMAIN argv : argv[i] = "--help"
    \/ /\ argv # <<>>
       /\ Head(argv) \in {"--help-commands", "--version", "clean"}

ProviderOrigins ==
    {"detect_openmp", "mdtraj", "numpy"}

\* The source path the claim C1 expects for s when the translator is missing.
SuffixRewritten(s) ==
    IF EndsWith(s, PYX)
    THEN SubSeq(s, 1, Len(s) - Len(PYX)) \o DOT_C
    ELSE s

C2_NeverExecuted ==
    MetadataOnlyInvocation =>
        /\ ext_total = 0
        /\ ext_pc = "idle"
        /\ metadata.keys \cap {"ext_modules", "setup_requires"} = {}
        /\ ~(exit_code = 1 /\ exc_origin \in ProviderOrigins)

\* C2 as amended: a metadata-only invocation puts neither 'ext_modules' nor
\* 'setup_requires' into the metadata, never runs extensions() from the
\* script or through the lazy callback, and does not fail for an absent
\* provider; extensions() runs in it only from the sdist override, when the
\* command line goes on to sdist in a checkout with the translator present.
C2_OnlyThroughSdist ==
    MetadataOnlyInvocation =>
        /\ metadata.keys \cap {"ext_modules", "setup_requires"} = {}
        /\ metadata.setup_requires = <<>>
        /\ ext_calls.lazy = 0
        /\ ext_calls.module = 0
        /\ ~lazy_list.evaluated
        /\ (ext_calls.sdist > 0 \/ ext_pc # "idle") =>
               /\ \E i \in DOMAIN argv : argv[i] = "sdist"
               /\ Head(argv) = "clean"
               /\ env.git
               /\ env.cython
        /\ ~(exit_code = 1 /\ exc_origin \in ProviderOrigins)

C2_Witness ==
    /\ argv = <<"clean", "sdist">>
    /\ ext_calls.sdist = 1
    /\ ~env.mdtraj
    /\ pc = "exit"
    /\ exit_code = 0

\* The descriptor lists extensions() has finished in this run.
FinishedLists ==
    {sdist_exts, lazy_list.list}
        \cup (IF ext_pc \in {"return", "returned"} THEN {exts} ELSE {})

\* C3: when OpenMP is detected, every descriptor of every finished list
\* carries '-fopenmp' exactly once, however often extensions() has run.
C3_FlagExactlyOnce ==
    env.openmp =>
        \A es \in FinishedLists : \A i \in DOMAIN es :
            CountOf("-fopenmp", es[i].extra_compile_args) = 1

C3_Witness ==
    /\ env.openmp
    /\ ext_calls.sdist = 1
    /\ ext_calls.lazy = 1
    /\ sdist_exts # <<>>
    /\ lazy_list.evaluated
    /\ lazy_list.list # <<>>

\* C4: with openmp_enabled false the injection step changes no descriptor's
\* extra compiler arguments, extra linker arguments or defines, whatever
\* needs_gomp is.
C4_InjectNoOp ==
    [][(ext_pc = "inject" /\ ~openmp_enabled) =>
          /\ DOMAIN exts' = DOMAIN exts
          /\ \A i \in DOMAIN exts :
                 /\ exts'[i].extra_compile_args = exts[i].extra_compile_args
                 /\ exts'[i].extra_link_args = exts[i].extra_link_args
                 /\ exts'[i].define_macros = exts[i].define_macros]_vars

C4_Witness ==
    /\ ext_pc = "return"
    /\ ~openmp_enabled
    /\ needs_gomp
    /\ Len(exts) = 2

\* C5: outside a checkout the sdist override imports and translates
\* nothing, never calls extensions() or the base command, does not raise,
\* and ends Done.
C5_NoTranslationOutsideCheckout ==
    ~env.git =>
        /\ ext_calls.sdist = 0
        /\ sdist_imports = 0
        /\ cythonize_calls = 0
        /\ base_runs = 0
        /\ sdist_state \in {"NotRun", "Running", "Done"}
        /\ sdist_state = "Running" => pc = "sdist_git"
        /\ pc \notin {"sdist_try", "sdist_wait", "sdist_base", "sdist_done"}

C5_Witness ==
    /\ ~env.git
    /\ sdist_state = "Done"
    /\ pc = "exit"
    /\ exit_code = 0

\* C6: for two descriptors, no translator and OpenMP detected, both
\* descriptors have their '.pyx' sources rewritten to '.c' files and carry
\* '-fopenmp' and ('USE_OPENMP', None); '-lgomp' is appended when needs_gomp
\* holds and not otherwise.
C6_EndToEnd ==
    (/\ ext_pc \in {"return", "returned"}
     /\ Len(exts0) = 2
     /\ ~USE_CYTHON
     /\ openmp_enabled) =>
        /\ Len(exts) = 2
        /\ \A i \in 1..2 :
               /\ DOMAIN exts[i].sources = DOMAIN exts0[i].sources
               /\ \A j \in DOMAIN exts0[i].sources :
                      /\ ~EndsWith(exts[i].sources[j], PYX)
                      /\ EndsWith(exts0[i].sources[j], PYX) =>
                             EndsWith(exts[i].sources[j], DOT_C)
               /\ exts[i].extra_compile_args =
                      exts0[i].extra_compile_args \o <<"-fopenmp">>
               /\ exts[i].define_macros =
                      exts0[i].define_macros \o << <<"USE_OPENMP", "None">> >>
               /\ exts[i].extra_link_args =
                      IF needs_gomp
                      THEN exts0[i].extra_link_args \o <<"-lgomp">>
                      ELSE exts0[i].extra_link_args

C6_Witness ==
    /\ ext_pc = "return"
    /\ Len(exts0) = 2
    /\ ~USE_CYTHON
    /\ openmp_enabled
    /\ needs_gomp
    /\ \A i \in 1..2 : EndsWith(exts0[i].sources[1], PYX)
    /\ \A i \in 1..2 : exts[i].extra_link_args = <<"-lgomp">>

\* C7: in a checkout without the translator the override catches the failed
\* import, warns, and runs the base command exactly once; it does not raise
\* for the missing translator.
C7_SoftFailure ==
    (env.git /\ ~env.cython) =>
        /\ ext_calls.sdist = 0
        /\ cythonize_calls = 0
        /\ base_runs <= 1
        /\ sdist_imports >= 1 =>
               /\ "Cython" \in caught
               /\ "sdist cythonize failed" \in warnings
               /\ base_runs = 1 \/ pc = "sdist_base"
        /\ sdist_state = "Done" => base_runs = 1
        /\ exc_origin # "Cython"
        /\ sdist_state = "Failed" => (base_runs = 1 /\ ext_calls.lazy = 1)

C7_Witness ==
    /\ env.git
    /\ ~env.cython
    /\ sdist_state = "Done"
    /\ base_runs = 1
    /\ "sdist cythonize failed" \in warnings

\* C8: in a non-metadata invocation no failed provider import and no
\* missing pybind11 directory is caught: only the missing translator is,
\* and a run in which one of them was raised ends with a non-zero exit.
C8_FatalPropagates ==
    ~MetadataOnlyInvocation =>
        /\ caught \subseteq {"Cython"}
        /\ (pc = "exit" /\ exc_origin \in ProviderOrigins \cup {"pybind11"}) =>
               exit_code = 1

\* C9: extensions() and its probes have not run before setup() is called;
\* the script never calls it, and it runs only for the sdist override or
\* the lazy callback.
C9_Deferred ==
    /\ pc \in {"metadata", "branch", "setup"} =>
           /\ ext_total = 0
           /\ ext_pc = "idle"
           /\ cython_probes = 0
           /\ detect_calls = 0
           /\ ~lazy_list.evaluated
    /\ ext_calls.module = 0
    /\ ext_pc # "idle" =>
           \/ caller = "sdist" /\ pc = "sdist_wait"
           \/ caller = "lazy" /\ pc = "lazy_wait"

C9_Witness ==
    /\ pc = "setup"
    /\ "ext_modules" \in metadata.keys
    /\ ext_total = 0
    /\ ~lazy_list.evaluated

====
